---- MODULE Spec2Model ----
(***************************************************************************)
(* PromiseExecutor (src/src/index.ts): a container of wrapped promises     *)
(* with submit(promise), next() and the remaining getter, run on a         *)
(* JavaScript event loop.  The promise machinery the class relies on is    *)
(* modelled explicitly: every `then` reaction and every `await`            *)
(* continuation is a job of the FIFO microtask queue.                      *)
(*                                                                         *)
(* A computation is a promise handed to submit; it settles at a moment the *)
(* class does not control, before or after it is submitted.  Each submit   *)
(* wraps the computation in a new promise p (index.ts:61-64) and mints a   *)
(* Symbol (index.ts:59); both are identified here by the submission's      *)
(* ordinal.                                                                *)
(***************************************************************************)
EXTENDS Integers, Sequences, FiniteSets, TLC

\* ---------------------------------------------------------------- bounds
MaxVal == 2         \* distinct payloads a computation may settle with
MaxSubmits == 2     \* submit calls in one run
MaxIdleCalls == 1   \* next() calls made on an empty executor in one run
MaxCalls == 2       \* next() calls made in one run by a caller that does not await
Concurrency == 2    \* the concurrency ceiling of the documented loop

Values == 1..MaxVal

\* An absent field of a Result / an undefined output (index.ts:79, 117-127).
NoVal == 0

VARIABLES
    comps,        \* comps[c]: state of the c-th promise the caller handed over
    settleOrder,  \* history: the computations that settled while an entry of
                  \* theirs was in this.tasks, in the order they settled
    wrapped,      \* wrapped[p]: the promise p made by the p-th submit
    tasks,        \* this.tasks: array of wrapped promises
    taskIds,      \* this.taskIds: Map from Symbol to wrapped promise
    microtasks,   \* the event loop's FIFO queue of promise jobs
    calls,        \* calls[k]: the k-th invocation of next(); what it did is
                  \* kept until the caller has observed its outcome
    idleCalls     \* history: the calls of next() that found this.tasks empty

vars == <<comps, settleOrder, wrapped, tasks, taskIds, microtasks, calls, idleCalls>>

Range(s) == {s[i] : i \in 1..Len(s)}

\* ------------------------------------------------------------ Result<T>
\* { ok: true, value, id }
Ok(value, id) == [ok |-> TRUE, value |-> value, err |-> NoVal, id |-> id]
\* { ok: false, err, id }
Err(err, id) == [ok |-> FALSE, value |-> NoVal, err |-> err, id |-> id]
\* the result slot of a promise that has not settled
NoResult == [ok |-> FALSE, value |-> NoVal, err |-> NoVal, id |-> NoVal]

\* The two handlers of promise.then in submit.
WrapResult(c, id) ==
    IF comps[c].st = "ok" THEN Ok(comps[c].val, id) ELSE Err(comps[c].val, id)

\* ------------------------------------------------------ outputs of next()
None == [kind |-> "none", payload |-> NoVal]
Some(value) == [kind |-> "some", payload |-> value]
Throw(err) == [kind |-> "throw", payload |-> err]
NoOutput == [kind |-> "pending", payload |-> NoVal]

\* Faulty variants: a failure is returned like a value instead of thrown; a
\* failure is swallowed and undefined returned.
NextOutputNoThrow(result) ==
    IF result.ok THEN Some(result.value) ELSE Some(result.err)
NextOutputUndefined(result) ==
    IF result.ok THEN Some(result.value) ELSE None

\* if (result.ok) return { value: result.value }; throw result.err;
NextOutput(result) ==
    IF result.ok THEN Some(result.value) ELSE Throw(result.err)

\* ------------------------------------------------------------------ Map
MapHas(m, id) == id \in DOMAIN m
MapSetAlone(m, id, p) == [i \in {id} |-> p]    \* faulty: the other keys are lost
MapSet(m, id, p) == [i \in DOMAIN m \cup {id} |-> IF i = id THEN p ELSE m[i]]
MapDelete(m, id) == [i \in DOMAIN m \ {id} |-> m[i]]

\* ----------------------------------------------------------- microtasks
WrapJob(p) == [kind |-> "wrap", call |-> NoVal, p |-> p]
RaceJob(k, p) == [kind |-> "race", call |-> k, p |-> p]
ResumeJob(k) == [kind |-> "resume", call |-> k, p |-> NoVal]
ObserveJob(k) == [kind |-> "observe", call |-> k, p |-> NoVal]

HeadIs(kind) == microtasks # << >> /\ Head(microtasks).kind = kind

\* ------------------------------------------------------------ remaining
remaining == Len(tasks)

\* The states a promise can be in when it is handed to submit.
Pending == [st |-> "pending", val |-> NoVal]
Settled(ok, v) == [st |-> IF ok THEN "ok" ELSE "err", val |-> v]

\* The payloads a computation may settle with.  The executor never looks into
\* a payload, so a payload is either one that a computation still in play
\* carries or a new one, and the new ones are named in increasing order.
Payloads ==
    LET used == {comps[c].val : c \in 1..Len(comps)} \cap Values
        unused == Values \ used
    IN used \cup {v \in unused : \A u \in unused : v <= u}

PromiseStates == {Pending} \cup {Settled(ok, v) : ok \in BOOLEAN, v \in Payloads}

Init ==
    /\ comps = << >>
    /\ settleOrder = << >>
    /\ wrapped = << >>
    /\ tasks = << >>
    /\ taskIds = << >>
    /\ microtasks = << >>
    /\ calls = << >>
    /\ idleCalls = 0

\* ------------------------------------------------------------- settling
\* The caller's promise c fulfils (ok) or rejects with payload v.  Its
\* reactions, one per submit that wrapped it, are queued in the order they
\* were attached.
Settle(c, ok, v) ==
    /\ comps[c].st = "pending"
    /\ comps' = [comps EXCEPT ![c] = Settled(ok, v)]
    /\ settleOrder' = Append(settleOrder, c)
    /\ LET ps == SelectSeq([p \in 1..Len(wrapped) |-> p],
                           LAMBDA p : wrapped[p].comp = c)
       IN microtasks' = microtasks \o [i \in 1..Len(ps) |-> WrapJob(ps[i])]
    /\ UNCHANGED <<wrapped, tasks, taskIds, calls, idleCalls>>

\* --------------------------------------------------------------- submit
\* The calls of next() whose race is still undecided.
Racing == {k \in 1..Len(calls) : calls[k].st = "racing"}

\* A faulty variant: a race that also listens to the promises pushed after it
\* began.
SubmitReactionsLive ==
    IF Racing = {} THEN << >> ELSE <<CHOOSE k \in Racing : \A j \in Racing : k <= j>>

\* The race reactions a freshly wrapped promise starts with: none, since
\* Promise.race attached its reactions to the array it was given.
SubmitReactions == << >>

\* A faulty variant: the token is derived from the number of entries stored.
SymbolByLength == Len(tasks) + 1

\* const id = Symbol(): a value no earlier call of Symbol() returned.
Symbol == Len(wrapped) + 1

\* submit(promise), promise being the computation c in state comps1[c].
\* Three fields of the new entry are history: returned counts the calls of
\* next() that output it, late tells that a call of next() had been made
\* before it was submitted, during names the call suspended in its race when
\* it was submitted.
submitTo(comps1, c) ==
    /\ comps' = comps1
    /\ LET id == Symbol
           p == Len(wrapped) + 1
       IN /\ wrapped' = Append(wrapped,
                [comp |-> c, st |-> "pending", result |-> NoResult,
                 id |-> id, reactions |-> SubmitReactions, returned |-> 0,
                 late |-> calls # << >>,
                 during |-> IF Racing = {} THEN NoVal ELSE CHOOSE k \in Racing : TRUE])
          /\ tasks' = Append(tasks, p)
          /\ taskIds' = MapSet(taskIds, id, p)
          /\ microtasks' = IF comps1[c].st = "pending"
                              THEN microtasks
                              ELSE Append(microtasks, WrapJob(p))
    /\ UNCHANGED <<settleOrder, calls, idleCalls>>

\* submit of a promise the caller has not submitted before, in state s.
submit(s) ==
    /\ Len(wrapped) < MaxSubmits
    /\ submitTo(Append(comps, s), Len(comps) + 1)

\* submit of a promise the caller has submitted before and that still has an
\* entry in this.tasks.  (A promise whose entries have all been returned has
\* settled: submitting it again is submit of a settled promise.)
resubmit(c) ==
    /\ Len(wrapped) < MaxSubmits
    /\ \E p \in Range(tasks) : wrapped[p].comp = c
    /\ submitTo(comps, c)

\* A reaction of promise.then runs: p fulfils with a Result and the races
\* waiting on p are notified, in the order they subscribed.
RunWrap ==
    /\ HeadIs("wrap")
    /\ LET p == Head(microtasks).p
           rs == wrapped[p].reactions
       IN /\ wrapped' = [wrapped EXCEPT
                ![p].st = "fulfilled",
                ![p].result = WrapResult(wrapped[p].comp, wrapped[p].id),
                ![p].reactions = << >>]
          /\ microtasks' = Tail(microtasks) \o [i \in 1..Len(rs) |-> RaceJob(rs[i], p)]
    /\ UNCHANGED <<comps, settleOrder, tasks, taskIds, calls, idleCalls>>

\* ----------------------------------------------------------------- next
\* Faulty variants: an off-by-one emptiness test; no emptiness test at all.
NextIdleOffByOne(ts) == Len(ts) <= 1
NextIdleNever(ts) == FALSE

\* if (this.tasks.length === 0)
NextIdle(ts) == Len(ts) = 0

Sequential == \A k \in 1..Len(calls) : calls[k].st = "observed"

\* Faulty variants: the promises still pending count as fulfilled; the array
\* is scanned from its end.
FulfilledAll(ts) == ts
FulfilledBackwards(ts) ==
    LET f == SelectSeq(ts, LAMBDA p : wrapped[p].st = "fulfilled")
    IN [i \in 1..Len(f) |-> f[Len(f) + 1 - i]]

\* The wrapped promises of ts that have already fulfilled.
Fulfilled(ts) == SelectSeq(ts, LAMBDA p : wrapped[p].st = "fulfilled")

\* The record of a call of next() at its invocation: the array it raced
\* (snap), the Result its race produced, its outcome, and the two
\* structures right before and right after its removeTask.  With hist, the
\* record also tells what was the case at the invocation: the entries whose
\* computation had settled (settledCall), those whose wrapped promise had
\* fulfilled (fulfilledCall), and the calls that had not resumed from their
\* await (over).
NewCall(st, out, hist) ==
    [st |-> st, idle |-> NextIdle(tasks), nsub |-> Len(wrapped), snap |-> tasks,
     result |-> NoResult, out |-> out, remCall |-> remaining, nsubEnd |-> Len(wrapped),
     tasksPre |-> tasks, idsPre |-> taskIds, tasksPost |-> tasks, idsPost |-> taskIds,
     settledPre |-> {},
     settledCall |-> IF hist
        THEN {p \in Range(tasks) : comps[wrapped[p].comp].st # "pending"} ELSE {},
     fulfilledCall |-> IF hist
        THEN {p \in Range(tasks) : wrapped[p].st = "fulfilled"} ELSE {},
     over |-> IF hist
        THEN {j \in 1..Len(calls) : calls[j].st \in {"racing", "raced"}} ELSE {}]

\* What is kept of a call the caller has observed.
Observed ==
    [st |-> "observed", idle |-> FALSE, nsub |-> NoVal, snap |-> << >>,
     result |-> NoResult, out |-> NoOutput, remCall |-> NoVal, nsubEnd |-> NoVal,
     tasksPre |-> << >>, idsPre |-> << >>, tasksPost |-> << >>, idsPost |-> << >>,
     settledPre |-> {}, settledCall |-> {}, fulfilledCall |-> {}, over |-> {}]

\* next() up to its first suspension, called when the caller's discipline
\* mayCall allows it.
CallNextWhen(mayCall, hist) ==
    /\ mayCall
    /\ LET k == Len(calls) + 1 IN
       IF NextIdle(tasks)
       THEN /\ idleCalls < MaxIdleCalls
            /\ idleCalls' = idleCalls + 1
            /\ calls' = Append(calls, NewCall("done", None, hist))
            /\ microtasks' = Append(microtasks, ObserveJob(k))
            /\ UNCHANGED wrapped
       ELSE /\ calls' = Append(calls, NewCall("racing", NoOutput, hist))
            /\ UNCHANGED idleCalls
            /\ LET done == Fulfilled(tasks)
               IN microtasks' = microtasks \o [i \in 1..Len(done) |-> RaceJob(k, done[i])]
            /\ wrapped' = [p \in 1..Len(wrapped) |->
                 IF p \in Range(tasks) /\ wrapped[p].st = "pending"
                 THEN [wrapped[p] EXCEPT !.reactions = Append(@, k)]
                 ELSE wrapped[p]]
    /\ UNCHANGED <<comps, settleOrder, tasks, taskIds>>

\* The caller awaits each call of next() before it makes the next one, as in
\* the documented loop and in the tests.
CallNext == CallNextWhen(Sequential, FALSE)

\* The same, the record keeping what was the case at the invocation.
CallNextTraced == CallNextWhen(Sequential, TRUE)

\* A caller that does not await: a call of next() may be made while earlier
\* calls are in flight.
CallNextOverlapping == CallNextWhen(Len(calls) < MaxCalls, TRUE)

\* A reaction of Promise.race runs: the first one decides the race and
\* queues the continuation of the await; the later ones do nothing.
RunRace ==
    /\ HeadIs("race")
    /\ LET k == Head(microtasks).call
           p == Head(microtasks).p
       IN IF calls[k].st = "racing"
          THEN /\ calls' = [calls EXCEPT ![k].st = "raced",
                                         ![k].result = wrapped[p].result]
               /\ microtasks' = Append(Tail(microtasks), ResumeJob(k))
          ELSE /\ microtasks' = Tail(microtasks)
               /\ UNCHANGED calls
    /\ UNCHANGED <<comps, settleOrder, wrapped, tasks, taskIds, idleCalls>>

\* Faulty variants of the filter: its result is dropped; it empties the
\* array; it compares outcomes instead of promises; it drops every settled
\* promise.
FilterTasksKeep(ts, p) == ts
FilterTasksClear(ts, p) == << >>
FilterTasksByOutcome(ts, p) ==
    SelectSeq(ts, LAMBDA t :
        <<wrapped[t].result.ok, wrapped[t].result.value, wrapped[t].result.err>>
      # <<wrapped[p].result.ok, wrapped[p].result.value, wrapped[p].result.err>>)
FilterTasksSettled(ts, p) == SelectSeq(ts, LAMBDA t : wrapped[t].st # "fulfilled")

\* this.tasks.filter((t) => t !== p)
FilterTasks(ts, p) == SelectSeq(ts, LAMBDA t : t # p)

\* Faulty variants: the index is cleared instead of losing one key; the index
\* keeps the key.
removeTaskIdsClear(ids, id) == << >>
removeTaskIdsKeep(ids, id) == ids

\* A faulty variant: with the key gone, the oldest entry is dropped.
removeTaskTasksAlways(ts, ids, id) ==
    IF MapHas(ids, id) THEN FilterTasks(ts, ids[id])
    ELSE IF ts = << >> THEN ts ELSE Tail(ts)

\* removeTask(id): the two structures after the call.
removeTaskTasks(ts, ids, id) ==
    IF MapHas(ids, id) THEN FilterTasks(ts, ids[id]) ELSE ts
removeTaskIds(ids, id) ==
    IF MapHas(ids, id) THEN MapDelete(ids, id) ELSE ids

\* next() after the await: removeTask(result.id), then return or throw.
RunResume ==
    /\ HeadIs("resume")
    /\ LET k == Head(microtasks).call
           result == calls[k].result
       IN /\ tasks' = removeTaskTasks(tasks, taskIds, result.id)
          /\ taskIds' = removeTaskIds(taskIds, result.id)
          /\ wrapped' = [wrapped EXCEPT ![result.id].returned = @ + 1]
          /\ calls' = [calls EXCEPT ![k].st = "done",
                                    ![k].out = NextOutput(result),
                                    ![k].nsubEnd = Len(wrapped),
                                    ![k].tasksPre = tasks,
                                    ![k].idsPre = taskIds,
                                    ![k].tasksPost = tasks',
                                    ![k].idsPost = taskIds',
                                    ![k].settledPre = Range(Fulfilled(tasks))]
          /\ microtasks' = Append(Tail(microtasks), ObserveJob(k))
    /\ UNCHANGED <<comps, settleOrder, idleCalls>>

\* The computations that have an entry in this.tasks.
Live == {wrapped[p].comp : p \in Range(tasks)}

\* The caller's continuation of `await e.next()` runs.  When no other call
\* is in flight, the history no later step can read is dropped: the records
\* of the calls, the marks of the entries submitted while this one was
\* suspended, the settle order and the payloads of the computations that
\* have no entry left in this.tasks, and the Results of the entries that
\* have been returned.  While another call is in flight the records stay.
\* A caller that handles the exception of next() goes on (handled); in a
\* caller that does not, the exception ends the code that made the call,
\* which makes no further call: the call is left as "thrown".
RunObserveBy(handled) ==
    /\ HeadIs("observe")
    /\ LET k == Head(microtasks).call
           quiet == \A j \in 1..Len(calls) : j # k => calls[j].st = "observed"
           after == IF ~handled /\ calls[k].out.kind = "throw" THEN "thrown" ELSE "observed"
       IN /\ calls' = IF quiet
                THEN [j \in 1..Len(calls) |->
                        IF j = k THEN [Observed EXCEPT !.st = after] ELSE Observed]
                ELSE [calls EXCEPT ![k].st = after]
          /\ wrapped' = [p \in 1..Len(wrapped) |->
                [wrapped[p] EXCEPT
                    !.during = IF @ = k THEN NoVal ELSE @,
                    !.result = IF quiet /\ p \notin Range(tasks) THEN NoResult ELSE @]]
          /\ settleOrder' = IF quiet
                THEN SelectSeq(settleOrder, LAMBDA c : c \in Live)
                ELSE settleOrder
          /\ comps' = IF quiet
                THEN [c \in 1..Len(comps) |->
                        IF c \in Live THEN comps[c] ELSE [comps[c] EXCEPT !.val = NoVal]]
                ELSE comps
    /\ microtasks' = Tail(microtasks)
    /\ UNCHANGED <<tasks, taskIds, idleCalls>>

\* The caller of the tests: each call of next() is awaited inside try/catch
\* or expect(...).rejects.
RunObserve == RunObserveBy(TRUE)

SettleAny == \E c \in 1..Len(comps), ok \in BOOLEAN, v \in Payloads : Settle(c, ok, v)
SubmitAny == \E s \in PromiseStates : submit(s)
ResubmitAny == \E c \in 1..Len(comps) : resubmit(c)

Next ==
    \/ SettleAny
    \/ SubmitAny
    \/ ResubmitAny
    \/ CallNext
    \/ RunWrap
    \/ RunRace
    \/ RunResume
    \/ RunObserve

Spec == Init /\ [][Next]_vars

\* The event loop runs the job at the head of the microtask queue.
RunJob == RunWrap \/ RunRace \/ RunResume \/ RunObserve

\* The event loop runs every queued job; the caller keeps calling next();
\* every submitted computation settles.
Fairness ==
    /\ WF_vars(RunJob)
    /\ WF_vars(CallNext)
    /\ WF_vars(SettleAny)

FairSpec == Spec /\ Fairness

\* The sequential caller again, with the history of each call recorded.
NextTraced ==
    \/ SettleAny
    \/ SubmitAny
    \/ ResubmitAny
    \/ CallNextTraced
    \/ RunWrap
    \/ RunRace
    \/ RunResume
    \/ RunObserve

TraceSpec == Init /\ [][NextTraced]_vars

\* A caller whose calls of next() may overlap.
NextOverlapping ==
    \/ SettleAny
    \/ SubmitAny
    \/ ResubmitAny
    \/ CallNextOverlapping
    \/ RunWrap
    \/ RunRace
    \/ RunResume
    \/ RunObserve

OverlapSpec == Init /\ [][NextOverlapping]_vars

\* ------------------------------------------------- the documented loop
\* let totalBlock = 20: here one task more than the ceiling, so that the
\* ceiling is what stops the inner while.
TotalTasks == Concurrency + 1

\* A faulty variant: the ceiling is tested with <=.
BelowConcurrencyInclusive(rem, i) == rem <= Concurrency /\ i < TotalTasks

\* while (exec.remaining < concurrency && i < totalBlocks)
BelowConcurrency(rem, i) == rem < Concurrency /\ i < TotalTasks

\* The exception of a call of next() has left the loop.
Thrown == \E k \in 1..Len(calls) : calls[k].st = "thrown"

\* exec.submit(blockUploadPromise(i)); i++  -- i is the number of submits
\* made.  The loop runs only while it is not suspended at its await.
LoopSubmit ==
    /\ Sequential
    /\ BelowConcurrency(remaining, Len(wrapped))
    /\ \E s \in PromiseStates : submitTo(Append(comps, s), Len(comps) + 1)

\* const result = await exec.next(), reached when the inner while is over.
\* The test `exec.length == 0 && i == totalBlocks` that guards the break
\* reads a property the class does not have: undefined == 0 is false, and
\* the loop goes on calling next() when everything has been returned.
LoopNext ==
    /\ ~BelowConcurrency(remaining, Len(wrapped))
    /\ CallNext

\* The loop resumes from its await; it has no try/catch, so an exception of
\* next() leaves it.
LoopObserve == RunObserveBy(FALSE)

\* One synchronous run of the loop is several steps here, so the model also
\* admits settlements and jobs between a submit and the call of next() that
\* follows it; every behaviour of the loop is a behaviour of LoopSpec.
NextLoop ==
    \/ SettleAny
    \/ LoopSubmit
    \/ LoopNext
    \/ RunWrap
    \/ RunRace
    \/ RunResume
    \/ LoopObserve

LoopSpec == Init /\ [][NextLoop]_vars

\* The event loop runs every queued job, the loop takes its steps and every
\* task settles.
LoopFairness ==
    /\ WF_vars(RunWrap \/ RunRace \/ RunResume \/ LoopObserve)
    /\ WF_vars(LoopSubmit)
    /\ WF_vars(LoopNext)
    /\ WF_vars(SettleAny)

FairLoopSpec == LoopSpec /\ LoopFairness

\* --------------------------------------------------------------- claims
\* The calls of next() that have returned or thrown and whose outcome the
\* caller has not yet observed: their records are complete.
DoneCalls == {k \in 1..Len(calls) : calls[k].st = "done"}
\* Those among them that found a non-empty this.tasks.
Drains == {k \in DoneCalls : ~calls[k].idle}

Entries == 1..Len(wrapped)
CompOf(p) == wrapped[p].comp
Winner(k) == calls[k].result.id

InOrder(c) == c \in Range(settleOrder)
Pos(c) == CHOOSE i \in 1..Len(settleOrder) : settleOrder[i] = c
\* Computation ca settled strictly before computation cb did.
SettledBefore(ca, cb) == InOrder(ca) /\ InOrder(cb) /\ Pos(ca) < Pos(cb)

\* C1: results are delivered in completion order: when A and B were both
\* pending at a call of next() and A settled strictly before B, that call
\* does not return B's outcome (A's comes first).
C1_CompletionOrder ==
    \A k \in Drains : \A a \in Range(calls[k].snap) :
        ~SettledBefore(CompOf(a), CompOf(Winner(k)))

\* C2: with sequential calls, an entry's outcome is returned or thrown by at
\* most one call of next(), and once returned the entry is in neither
\* structure, so remaining never counts it again.
C2_AtMostOnce ==
    \A p \in Entries :
        /\ wrapped[p].returned <= 1
        /\ wrapped[p].returned = 1 =>
              /\ p \notin Range(tasks)
              /\ ~MapHas(taskIds, wrapped[p].id)
              /\ remaining <= Cardinality({q \in Entries : wrapped[q].returned = 0})

\* An entry has been returned and a later call of next() has completed.
C2_Witness ==
    \E p \in Entries, k \in DoneCalls :
        wrapped[p].returned = 1 /\ Winner(k) # p /\ k > 1

\* All submits were made before the first call of next() and no submitted
\* computation has failed.
AllSubmittedFirst == \A p \in Entries : ~wrapped[p].late
NoneFailed == \A c \in 1..Len(comps) : comps[c].st # "err"

\* C3: after N succeeding computations are submitted, each of the first N
\* calls of next() returns a present value, the value of an entry not
\* returned before, and leaves remaining one lower (N - k after call k);
\* every later call returns "no value" with remaining 0.
C3_DrainAll ==
    (AllSubmittedFirst /\ NoneFailed) =>
        \A k \in DoneCalls :
            IF k <= Len(wrapped)
            THEN /\ calls[k].out.kind = "some"
                 /\ calls[k].out = Some(comps[CompOf(Winner(k))].val)
                 /\ comps[CompOf(Winner(k))].st = "ok"
                 /\ wrapped[Winner(k)].returned = 1
                 /\ Len(calls[k].tasksPost) = Len(wrapped) - k
                 /\ Len(calls[k].tasksPre) = Len(calls[k].tasksPost) + 1
            ELSE /\ calls[k].out = None
                 /\ Len(calls[k].tasksPost) = 0
                 /\ remaining = 0

\* Two computations were submitted, both succeeded, two calls drained them
\* and the third call has returned "no value".
C3_Witness ==
    /\ AllSubmittedFirst /\ NoneFailed
    /\ Len(wrapped) >= 2
    /\ Len(wrapped) + 1 \in DoneCalls
    /\ \A p \in Entries : wrapped[p].returned = 1

\* C4: a call of next() that observes a failed computation throws exactly
\* that computation's payload and removes its entry: remaining after the
\* call is one lower than right before the removal, and one lower than at
\* the call's invocation plus the submits made while it was suspended.
C4_FailureThrown ==
    \A k \in Drains :
        comps[CompOf(Winner(k))].st = "err" =>
            /\ calls[k].out = Throw(comps[CompOf(Winner(k))].val)
            /\ Winner(k) \notin Range(calls[k].tasksPost)
            /\ Len(calls[k].tasksPost) = Len(calls[k].tasksPre) - 1
            /\ Len(calls[k].tasksPost) =
                 calls[k].remCall + (calls[k].nsubEnd - calls[k].nsub) - 1

\* A call has thrown the payload of a failed computation while another
\* entry, whose computation settled with another payload, was pending.
C4_Witness ==
    \E k \in Drains, q \in Entries :
        /\ calls[k].out.kind = "throw"
        /\ q \in Range(calls[k].tasksPost)
        /\ comps[CompOf(q)].st # "pending"
        /\ comps[CompOf(q)].val # calls[k].out.payload

\* The calls that observed a failed computation.
Failures == {k \in Drains : ~calls[k].result.ok}
\* The sequence ts without the promise p, the other promises in place.
Without(ts, p) == SelectSeq(ts, LAMBDA t : t # p)
\* The index ids without the token id, the other tokens mapped as before.
IndexWithout(ids, a, id) ==
    /\ DOMAIN a = DOMAIN ids \ {id}
    /\ \A i \in DOMAIN a : a[i] = ids[i]
AllReturned == \A p \in Entries : wrapped[p].returned = 1

\* C5: a call of next() that throws removes only the failed entry: the other
\* entries keep their place in this.tasks and their token in this.taskIds,
\* unreturned; later calls return or throw each of them (after a call has
\* thrown, a state follows in which every entry has been returned); and
\* once every entry has been drained remaining is 0.
C5_FailureIsolated ==
    /\ [](\A k \in Failures :
            /\ calls[k].out.kind = "throw"
            /\ calls[k].tasksPost = Without(calls[k].tasksPre, Winner(k))
            /\ Len(calls[k].tasksPost) = Len(calls[k].tasksPre) - 1
            /\ IndexWithout(calls[k].idsPre, calls[k].idsPost, Winner(k))
            /\ \A q \in Range(calls[k].tasksPost) : wrapped[q].returned = 0)
    /\ [](AllReturned => remaining = 0)
    /\ (Failures # {}) ~> AllReturned

\* A call has thrown while an entry whose computation succeeded was pending,
\* the failing one having been submitted first.
C5_Witness ==
    \E k \in Failures, q \in Entries :
        /\ q \in Range(calls[k].tasksPost)
        /\ comps[CompOf(q)].st = "ok"
        /\ Winner(k) < q

\* C6: a call of next() that finds this.tasks empty completes at once, in the
\* step that makes it, with "no value"; it waits for no settlement, does not
\* throw, and changes neither structure nor any promise.
C6_IdleNext ==
    [][(remaining = 0 /\ Len(calls') = Len(calls) + 1) =>
          /\ calls'[Len(calls')].st = "done"
          /\ calls'[Len(calls')].out = None
          /\ tasks' = tasks /\ taskIds' = taskIds
          /\ Len(tasks') = 0
          /\ wrapped' = wrapped /\ comps' = comps /\ settleOrder' = settleOrder]_vars

\* A call made on a fully drained executor has returned "no value".
C6_Witness ==
    \E k \in DoneCalls :
        /\ calls[k].idle /\ calls[k].out = None
        /\ wrapped # << >> /\ AllReturned

\* The computation of entry b, submitted while call k was suspended, settled
\* strictly before every computation that was pending when call k began.
SettledFirst(b, k) ==
    /\ InOrder(CompOf(b))
    /\ \A a \in Range(calls[k].snap) :
          /\ CompOf(a) # CompOf(b)
          /\ \/ comps[CompOf(a)].st = "pending"
             \/ SettledBefore(CompOf(b), CompOf(a))

\* C7 as stated: a computation submitted while a call of next() is suspended
\* takes part in that call's race, so if it settles first the call returns
\* its outcome.
C7_LateSubmitRaces ==
    \A k \in Drains : \A b \in Entries :
        (wrapped[b].during = k /\ SettledFirst(b, k)) => Winner(k) = b

\* C7 amended: a call of next() races the entries that were in this.tasks
\* when it was made; an entry submitted while the call is suspended is not
\* returned by it, even if it settles first, and stays pending.
C7_RaceIsSnapshot ==
    \A k \in Drains :
        /\ Winner(k) \in Range(calls[k].snap)
        /\ \A b \in Entries :
              wrapped[b].during = k =>
                  /\ Winner(k) # b
                  /\ b \in Range(calls[k].tasksPost)
                  /\ wrapped[b].returned = 0

\* A call has completed although an entry submitted while it was suspended
\* settled before everything the call had found pending.
C7_Witness ==
    \E k \in Drains, b \in Entries :
        wrapped[b].during = k /\ SettledFirst(b, k)

\* C8: when every submitted computation settles and the caller keeps calling
\* next() sequentially, every entry's outcome is eventually returned or
\* thrown and remaining reaches 0: again and again the executor is empty with
\* every entry submitted so far returned.
C8_AllReturned ==
    []<>(remaining = 0 /\ \A p \in Entries : wrapped[p].returned = 1)

\* Every submit allowed has been made, every entry has been returned and
\* the executor is empty.
C8_Witness ==
    /\ Len(wrapped) = MaxSubmits
    /\ \A p \in Entries : wrapped[p].returned = 1
    /\ remaining = 0

\* Entries q and w wrap the same computation, or computations that settled
\* alike with the same payload.
Twins(q, w) ==
    /\ q # w
    /\ \/ CompOf(q) = CompOf(w)
       \/ /\ comps[CompOf(q)].st = comps[CompOf(w)].st
          /\ comps[CompOf(q)].val = comps[CompOf(w)].val

\* C9: entries whose computations settle with an identical value, or wrap
\* the very same computation, are separate: draining one removes exactly
\* that one, its twin stays in both structures, unreturned, and is returned
\* by a later call of next() (a state follows in which every entry has been
\* returned).
C9_TwinsIndependent ==
    /\ [](\A k \in Drains : \A q \in Range(calls[k].tasksPre) :
            Twins(q, Winner(k)) =>
                /\ q \in Range(calls[k].tasksPost)
                /\ MapHas(calls[k].idsPost, wrapped[q].id)
                /\ calls[k].idsPost[wrapped[q].id] = q
                /\ wrapped[q].returned = 0
                /\ Len(calls[k].tasksPost) = Len(calls[k].tasksPre) - 1)
    /\ (\E k \in Drains : \E q \in Range(calls[k].tasksPre) : Twins(q, Winner(k)))
          ~> AllReturned

\* One entry has been drained while a settled twin of it was pending: once
\* the same computation submitted twice, once another computation with the
\* same outcome.
C9_Witness ==
    \E k \in Drains, q \in Entries :
        /\ q \in Range(calls[k].tasksPost)
        /\ Twins(q, Winner(k))
        /\ wrapped[q].st = "fulfilled"
        /\ CompOf(q) # CompOf(Winner(k))

\* C10: a call of next() that found this.tasks non-empty removes exactly one
\* entry and reports exactly one outcome; every other entry that had
\* settled by the time the call resolved stays in both structures,
\* unreturned.
C10_OnePerCall ==
    \A k \in Drains :
        /\ Len(calls[k].tasksPost) = Len(calls[k].tasksPre) - 1
        /\ Winner(k) \notin Range(calls[k].tasksPost)
        /\ wrapped[Winner(k)].returned = 1
        /\ \A q \in calls[k].settledPre \ {Winner(k)} :
              /\ q \in Range(calls[k].tasksPost)
              /\ MapHas(calls[k].idsPost, wrapped[q].id)
              /\ wrapped[q].returned = 0

\* A call has resolved while another entry had settled as well.
C10_Witness ==
    \E k \in Drains : calls[k].settledPre \ {Winner(k)} # {}

\* C12: in every reachable state this.tasks and this.taskIds hold exactly the
\* same wrapped promises: every entry of tasks is the value of exactly one
\* key of taskIds, every value of taskIds occurs exactly once in tasks, and
\* the two have the same size.
C12_SameEntries ==
    /\ \A i \in 1..Len(tasks) :
          Cardinality({id \in DOMAIN taskIds : taskIds[id] = tasks[i]}) = 1
    /\ \A id \in DOMAIN taskIds :
          Cardinality({i \in 1..Len(tasks) : tasks[i] = taskIds[id]}) = 1
    /\ Len(tasks) = Cardinality(DOMAIN taskIds)

\* An entry has been removed while an entry submitted before it stays.
C12_Witness ==
    /\ remaining >= 1
    /\ \E p \in Entries, q \in Range(tasks) : wrapped[p].returned = 1 /\ p > q

\* The calls of next() that have returned or thrown, observed or not.
Completed == {k \in 1..Len(calls) : calls[k].st \in {"done", "observed"}}

\* C13: with sequential calls of next(), remaining equals the number of
\* submit calls made minus the number of calls of next() that completed with
\* a present value or a failure (the completed calls that did not find
\* this.tasks empty); it is never negative.
C13_RemainingCount ==
    /\ remaining = Len(wrapped) - (Cardinality(Completed) - idleCalls)
    /\ remaining >= 0
    /\ Cardinality(Completed) - idleCalls <= Len(wrapped)

C13_Witness ==
    /\ remaining = 1
    /\ Len(wrapped) = 2
    /\ idleCalls = 1
    /\ Cardinality(Completed) = 2

\* C14: the Symbol of an entry differs from the Symbol of every entry
\* submitted before it, the entries already returned and removed included.
C14_FreshToken ==
    \A p \in Entries : \A q \in Entries : p < q => wrapped[p].id # wrapped[q].id

\* Entry p was submitted before any call of next() and has been returned; a
\* call of next() then found this.tasks empty; q was submitted after that.
C14_Witness ==
    \E p \in Entries, q \in Range(tasks) :
        /\ p < q
        /\ ~wrapped[p].late
        /\ wrapped[p].returned = 1
        /\ idleCalls >= 1

\* C18: a call of next() made while this.tasks is non-empty does not return
\* undefined: it returns the value of an entry that was in this.tasks when
\* the call was made, or throws that entry's error.
C18_NeverNone ==
    \A k \in DoneCalls : calls[k].remCall > 0 =>
        /\ calls[k].out.kind \in {"some", "throw"}
        /\ Winner(k) \in Range(calls[k].snap)
        /\ comps[CompOf(Winner(k))].st \in {"ok", "err"}
        /\ calls[k].out.kind = "some" <=> comps[CompOf(Winner(k))].st = "ok"
        /\ calls[k].out.payload = comps[CompOf(Winner(k))].val

\* A call threw while another entry of the array it raced was pending.
C18_Witness ==
    \E k \in DoneCalls :
        /\ calls[k].remCall > 1
        /\ calls[k].out.kind = "throw"
        /\ \E q \in Range(calls[k].tasksPost) : wrapped[q].st = "pending"

\* No computation behind the array that call k raced has settled.
Unsettled(k) == \A a \in Range(calls[k].snap) : comps[CompOf(a)].st = "pending"

\* C15: as long as no computation of a non-empty this.tasks has settled, a
\* call of next() made on it has neither returned nor thrown, and it has
\* changed neither this.tasks nor this.taskIds: the entries it found are
\* still there, in place, and remaining differs from its value at the call
\* only by the submits made since.
C15_Suspended ==
    \A k \in 1..Len(calls) : (calls[k].remCall > 0 /\ Unsettled(k)) =>
        /\ calls[k].st = "racing"
        /\ calls[k].out = NoOutput
        /\ Len(tasks) >= Len(calls[k].snap)
        /\ \A i \in 1..Len(calls[k].snap) : tasks[i] = calls[k].snap[i]
        /\ \A a \in Range(calls[k].snap) :
              MapHas(taskIds, wrapped[a].id) /\ taskIds[wrapped[a].id] = a
        /\ remaining = calls[k].remCall + (Len(wrapped) - calls[k].nsub)

\* A call is suspended on unsettled computations with no job left to run,
\* although an entry submitted after the call has fulfilled.
C15_Witness ==
    \E k \in 1..Len(calls) :
        /\ calls[k].remCall > 0
        /\ Unsettled(k)
        /\ microtasks = << >>
        /\ \E q \in Range(tasks) : q \notin Range(calls[k].snap) /\ wrapped[q].st = "fulfilled"

\* C16: submit is enabled whatever the state of the promise it is given
\* (pending, fulfilled, rejected) and is one step that waits for nothing; it
\* appends exactly one entry to this.tasks, so remaining grows by exactly 1,
\* adds exactly one key to this.taskIds, and leaves every entry already
\* submitted, its place and its key unchanged.
C16_SubmitFrame ==
    /\ [](Len(wrapped) < MaxSubmits => \A s \in PromiseStates : ENABLED submit(s))
    /\ [][Len(wrapped') = Len(wrapped) + 1 =>
            /\ remaining' = remaining + 1
            /\ tasks' = Append(tasks, Len(wrapped'))
            /\ DOMAIN taskIds' = DOMAIN taskIds \cup {wrapped'[Len(wrapped')].id}
            /\ Cardinality(DOMAIN taskIds') = Cardinality(DOMAIN taskIds) + 1
            /\ taskIds'[wrapped'[Len(wrapped')].id] = Len(wrapped')
            /\ \A id \in DOMAIN taskIds : taskIds'[id] = taskIds[id]
            /\ \A p \in Entries : wrapped'[p] = wrapped[p]
            /\ calls' = calls]_vars

\* A promise that had already rejected has been submitted next to an entry
\* that is still pending, while a call of next() was suspended.
C16_Witness ==
    \E p \in Range(tasks), q \in Range(tasks) :
        /\ p < q
        /\ wrapped[p].st = "pending" /\ comps[CompOf(p)].st = "pending"
        /\ wrapped[q].st = "pending" /\ comps[CompOf(q)].st = "err"
        /\ wrapped[q].during # NoVal

\* A step in which a computation settles or a wrapped promise fulfils.
SettlementStep ==
    \/ /\ Len(comps') = Len(comps)
       /\ \E c \in 1..Len(comps) : comps[c].st = "pending" /\ comps'[c].st # "pending"
    \/ /\ Len(wrapped') = Len(wrapped)
       /\ \E p \in Entries : wrapped[p].st = "pending" /\ wrapped'[p].st = "fulfilled"

\* C17: a settlement leaves this.tasks and this.taskIds as they are; an entry
\* that no call of next() has returned, settled or not, is in both and is
\* counted by remaining; an entry leaves this.tasks only in the step in which
\* a call of next() resumes from its await and removes it.
C17_SettleFrame ==
    /\ [](\A p \in Entries : wrapped[p].returned = 0 =>
            /\ p \in Range(tasks)
            /\ MapHas(taskIds, wrapped[p].id)
            /\ taskIds[wrapped[p].id] = p)
    /\ [](remaining >= Cardinality({p \in Entries : wrapped[p].st = "fulfilled" /\ wrapped[p].returned = 0}))
    /\ [][SettlementStep => (tasks' = tasks /\ taskIds' = taskIds /\ remaining' = remaining)]_vars
    /\ [][(\E p \in Range(tasks) : p \notin Range(tasks')) =>
            /\ HeadIs("resume")
            /\ Range(tasks) \ Range(tasks') = {calls[Head(microtasks).call].result.id}]_vars

\* Every entry has settled, none has been returned, calls of next() have been
\* made before, and nothing is left to run.
C17_Witness ==
    /\ remaining = 2
    /\ \A p \in Range(tasks) : wrapped[p].st = "fulfilled" /\ wrapped[p].late
    /\ microtasks = << >>

\* The entry of S that was submitted first.
Earliest(S) == CHOOSE p \in S : \A q \in S : p <= q

Resolved ==
    {k \in 1..Len(calls) : calls[k].st \in {"done", "observed"} /\ calls[k].result.id # NoVal}

\* Call k was made before call j had resumed from its await, on the array
\* that j raced.
Overlap(j, k) == j \in calls[k].over /\ calls[j].snap = calls[k].snap

\* j and k return the same Result, the later removeTask changes nothing and
\* the entry has been removed exactly once, by one step that shortened
\* this.tasks by one.
SameOutcome(j, k) ==
    /\ calls[j].result = calls[k].result
    /\ calls[j].out = calls[k].out
    /\ calls[k].tasksPost = calls[k].tasksPre
    /\ calls[k].idsPost = calls[k].idsPre
    /\ Winner(k) \notin Range(calls[k].tasksPost)
    /\ ~MapHas(calls[k].idsPost, Winner(k))
    /\ wrapped[Winner(k)].returned >= 2
    /\ Cardinality({i \in Resolved : /\ calls[i].result = calls[k].result
                                     /\ calls[i].tasksPost # calls[i].tasksPre}) = 1
    /\ \A i \in Resolved : calls[i].result = calls[k].result =>
          Len(calls[i].tasksPre) - Len(calls[i].tasksPost) \in {0, 1}

\* C19 as stated: two calls of next() that overlap on the same non-empty
\* array both resolve with the same outcome; the entry is removed once and
\* the second removal is a no-op.
C19_OverlapSameOutcome ==
    \A k \in Resolved : \A j \in Resolved : Overlap(j, k) => SameOutcome(j, k)

\* C19: two calls of next() that overlap on the same non-empty array, none of
\* whose wrapped promises had fulfilled when the second call was made, both
\* resolve with the outcome of the same entry; the entry is removed once, the
\* later removeTask is a no-op, and this.tasks loses one entry in total.
C19_OverlapUnsettled ==
    \A k \in Resolved : \A j \in Resolved :
        (Overlap(j, k) /\ calls[k].fulfilledCall = {}) => SameOutcome(j, k)

\* Two calls overlapped on an array of two unfulfilled promises and both have
\* resolved; the other entry is still stored.
C19_Witness ==
    \E k \in Resolved : \E j \in Resolved :
        /\ Overlap(j, k)
        /\ calls[k].fulfilledCall = {}
        /\ Len(calls[k].snap) = 2
        /\ remaining = 1

\* No task has been submitted twice: the entries ever made are the first
\* tasks in order, one entry each.
SubmittedOnce ==
    /\ Len(wrapped) <= TotalTasks
    /\ Len(comps) = Len(wrapped)
    /\ \A p \in Entries : CompOf(p) = p

====
